---- MODULE Spec2Model ----
(***************************************************************************)
(* Full-duplex voice link: the bounded capture/playback queues, the audio  *)
(* callbacks, the send and receive worker threads, the UDP transport       *)
(* (AudioComm), the Opus codec wrapper and the processor toggle.           *)
(*                                                                         *)
(* Three programs of the repository are modelled, selected by `variant`:   *)
(*   "duplex" demo/duplex/rp5_full_duplex_modular.py  (FullDuplexModular)  *)
(*   "wifi"   demo/duplex_public_wifi/rp5_full_duplex_modular.py           *)
(*   "comm"   demo/duplex/rp5_full_duplex.py          (FullDuplexComm)     *)
(* Audio is modelled symbolically: a frame is the identity of its source   *)
(* (the capture or the datagram it came from), its length in samples, and  *)
(* the processor applied to it.  Exceptions are modelled as results.       *)
(***************************************************************************)
EXTENDS Integers, Sequences, FiniteSets, TLC

\* ------------------------------------------------------------- bounds
MaxBuf == 2          \* largest configured buffer_size explored
MaxCapture == 2      \* microphone callbacks per behaviour
MaxPolls == 2        \* socket polls (recvfrom calls) per behaviour, 20 ms blocks
MaxPollsWifi == 3    \* socket polls per behaviour of the wifi program (60 ms blocks)
MaxPlay == 1         \* speaker callbacks per behaviour
MaxFaults == 1       \* injected faults (encoder, socket send, processor) per direction
MaxDatagrams == 2    \* datagrams each endpoint of a pair sends
MaxSamples == 2      \* samples of a frame followed through the PCM conversions
MaxInitial == 3      \* largest initial_processor value of the config file

\* -------------------------------------------------- program constants
ChunkDuplex == 960
ChunkWifi == 2880
SampleRate16k == 16000
FrameDurationMs == 20
FrameSize == (SampleRate16k * FrameDurationMs) \div 1000
SilenceLen == 320
MaxQueueSize == 5
FlushKeep == 3
BatchSize == 1
OpusChunk == 320
CommQueueSize == 5

VARIABLES
    variant,          \* which program runs
    buffer_size,      \* config: queue capacity
    processors,       \* self.processors (sequence of processor kinds)
    launch,           \* main(): the config flags and whether the AI model loaded
    wire,             \* network: the peer's frame number in the datagram of each poll
    port_args,        \* per role: the send_port / recv_port FullDuplexComm is constructed with
    endpoints,        \* per role: the ports the constructed FullDuplexComm uses
    dgrams_sent,      \* per role: datagrams handed to sendto
    heard,            \* per role: datagrams of the peer that reached the bound socket
    cx_path,          \* sample path followed: OpusCodec alone, or FullDuplexComm around it
    cx_in,            \* the frame of samples handed in
    cx_pc,            \* how far the frame has travelled
    cx_val,           \* the frame at that point
    cx_muls,          \* multiplications by 32767 applied so far
    cx_divs,          \* divisions by 32767 applied so far
    cx_wrapped,       \* a product left the int16 range and wrapped
    main_pc,          \* position of the main thread (main / run / start)
    sockets_open,     \* the two UDP sockets of comm are open
    current_idx,      \* self.current_idx
    running,          \* self.running
    send_queue,       \* self.send_queue
    recv_queue,       \* self.recv_queue
    captured,         \* number of microphone callbacks so far
    last_mic,         \* the last microphone callback: frame id, whether it was discarded
    send_pc,          \* position of the send thread
    batch_buffer,     \* send_thread local batch_buffer (wifi)
    s_proc,           \* send_thread local: index read for `processor`
    packets_sent,     \* self.packets_sent
    last_send,        \* the last send-thread iteration that dequeued a frame
    recv_pc,          \* position of the receive thread
    r_frame,          \* recv_thread local audio_16k
    audio_buffer,     \* recv_thread local audio_buffer (wifi)
    packets_received, \* self.packets_received
    recv_count,       \* comm.recv_count
    timeout_count,    \* comm.timeout_count
    polls,            \* number of socket polls so far
    last_recv,        \* the last receive-thread iteration: poll outcome and put attempts
    outdata,          \* what the last speaker callback wrote
    played,           \* number of speaker callbacks so far
    send_faults,      \* faults injected in the send direction so far
    recv_faults,      \* faults injected in the receive direction so far
    send_puts,        \* enqueue attempts on send_queue since its last dequeue
    recv_puts         \* enqueue attempts on recv_queue since its last dequeue

cfgVars == <<variant, buffer_size, processors, launch, wire>>
linkVars == <<port_args, endpoints, dgrams_sent, heard>>
pcmVars == <<cx_path, cx_in, cx_pc, cx_val, cx_muls, cx_divs, cx_wrapped>>
mainVars == <<main_pc, sockets_open>>
ctlVars == <<current_idx, running>>
sendVars == <<send_queue, captured, last_mic, send_pc, batch_buffer, s_proc,
              packets_sent, last_send, send_puts, send_faults>>
recvVars == <<recv_queue, recv_pc, r_frame, audio_buffer, packets_received,
              recv_count, timeout_count, polls, last_recv, outdata,
              played, recv_puts, recv_faults>>
vars == <<cfgVars, linkVars, pcmVars, mainVars, ctlVars, sendVars, recvVars>>

\* ------------------------------------------------------------ helpers
Min(a, b) == IF a < b THEN a ELSE b

RECURSIVE SumLen(_)
SumLen(s) == IF s = <<>> THEN 0 ELSE Head(s).len + SumLen(Tail(s))

\* queue.Queue(maxsize): maxsize <= 0 means unbounded
QueueFull(q, maxsize) == maxsize > 0 /\ Len(q) >= maxsize

\* Mutant of PutNowait: the capacity is not enforced.
PutNowait_Unbounded(q, maxsize, item) == [q |-> Append(q, item), full |-> FALSE]

\* queue.Queue.put(item, block=False) / put_nowait: raises queue.Full
\* when the queue is full, otherwise appends at the tail.
PutNowait(q, maxsize, item) ==
    IF QueueFull(q, maxsize)
    THEN [q |-> q, full |-> TRUE]
    ELSE [q |-> Append(q, item), full |-> FALSE]

\* Capacity of the two queues of the running program.
QueueCap == IF variant = "comm" THEN CommQueueSize ELSE buffer_size

ChunkSize48k == IF variant = "wifi" THEN ChunkWifi ELSE ChunkDuplex

PollBound == IF variant = "wifi" THEN MaxPollsWifi ELSE MaxPolls

\* Microphone callbacks explored: a queue large enough for the wifi flush
\* (more than max_queue_size frames) gets enough captures to fill it.
CaptureBound ==
    IF buffer_size > MaxQueueSize THEN MaxQueueSize + MaxCapture ELSE MaxCapture

\* ------------------------------------------------------ sample arrays
\* A numpy array of samples is a sequence of segments; a segment is `len`
\* samples starting at offset `off` of the source `id` (a capture number on
\* the send side, a poll number on the receive side; 0 for zeros), with the
\* processor that was applied to it.
Seg(id, kind, len) == [id |-> id, kind |-> kind, off |-> 0, len |-> len, proc |-> "none"]

\* np.zeros(n)
Zeros(n) == <<Seg(0, "zero", n)>>

IsSilent(a) == a = Zeros(SumLen(a))

\* a[:n] and a[n:] of a sample array
RECURSIVE Take(_, _)
Take(a, n) ==
    IF n <= 0 \/ a = <<>> THEN <<>>
    ELSE IF Head(a).len <= n THEN <<Head(a)>> \o Take(Tail(a), n - Head(a).len)
    ELSE <<[Head(a) EXCEPT !.len = n]>>

RECURSIVE Drop(_, _)
Drop(a, n) ==
    IF n <= 0 \/ a = <<>> THEN a
    ELSE IF Head(a).len <= n THEN Drop(Tail(a), n - Head(a).len)
    ELSE <<[Head(a) EXCEPT !.len = @ - n, !.off = @ + n]>> \o Tail(a)

\* scipy.signal.resample_poly(x, up, down): ceil(len * up / down) samples.
\* The programs only resample whole single-source frames.
ResamplePoly(a, up, down) ==
    [i \in 1..Len(a) |->
        [a[i] EXCEPT !.len = (@ * up + down - 1) \div down,
                     !.off = (@ * up) \div down]]

\* Mutant of Downsample48kTo16k: the 48 kHz frame is passed on as it is.
Downsample48kTo16k_Skipped(a) == a

\* AudioComm.downsample_48k_to_16k / upsample_16k_to_48k
Downsample48kTo16k(a) == ResamplePoly(a, 1, 3)
Upsample16kTo48k(a) == ResamplePoly(a, 3, 1)

\* ------------------------------------------------------------- codec
\* OpusCodec.encode: the encoder either returns a packet for the frame or
\* raises, and then encode prints and returns b''.
OpusEncode(audio, encOut) ==
    IF encOut = "error"
    THEN [empty |-> TRUE, audio |-> <<>>]
    ELSE [empty |-> FALSE, audio |-> audio]

\* Mutant of OpusDecode: the decoder's exception is not caught.
OpusDecode_Raises(id, decOut) ==
    IF decOut = "error"
    THEN [audio |-> <<>>, raised |-> TRUE]
    ELSE [audio |-> <<Seg(id, "audio", FrameSize)>>, raised |-> FALSE]

\* OpusCodec.decode: the decoder either returns frame_size samples or
\* raises, and then decode prints and returns np.zeros(frame_size).
OpusDecode(id, decOut) ==
    IF decOut = "error"
    THEN [audio |-> Zeros(FrameSize), raised |-> FALSE]
    ELSE [audio |-> <<Seg(id, "audio", FrameSize)>>, raised |-> FALSE]

\* --------------------------------------------------------- processors
\* Mutant of ProcessorProcess: the unimplemented classical filters raise.
ProcessorProcess_ClassicalRaises(kind, audio, fault) ==
    IF kind = "ai"
    THEN IF fault
         THEN [raised |-> TRUE, audio |-> <<>>]
         ELSE [raised |-> FALSE,
               audio |-> [i \in 1..Len(audio) |-> [audio[i] EXCEPT !.proc = "ai"]]]
    ELSE IF kind = "classical"
    THEN [raised |-> TRUE, audio |-> <<>>]
    ELSE [raised |-> FALSE, audio |-> audio]

\* Mutant of ProcessorProcess: the denoiser hands its input back unchanged.
ProcessorProcess_Identity(kind, audio, fault) == [raised |-> FALSE, audio |-> audio]

\* BypassProcessor.process and ClassicalFiltersProcessor.process return
\* their argument.  AIDenoiserProcessor.process has no handler of its own:
\* a failure inside it (the model call, a shape mismatch) propagates.
ProcessorProcess(kind, audio, fault) ==
    IF kind = "ai"
    THEN IF fault
         THEN [raised |-> TRUE, audio |-> <<>>]
         ELSE [raised |-> FALSE,
               audio |-> [i \in 1..Len(audio) |-> [audio[i] EXCEPT !.proc = "ai"]]]
    ELSE [raised |-> FALSE, audio |-> audio]

\* --------------------------------------------------------- AudioComm
\* AudioComm.__init__: the codec objects it constructs, by attribute name.
CodecAttributes == {"codec"}

\* AudioComm.send calls self.codec.encode, AudioComm.receive calls
\* self.codec.decode.
EncodeCodec == "codec"
DecodeCodec == "codec"

\* Mutant of CommSend: the except branch reports success.
CommSend_TrueOnError(audio, encOut, sockOut) ==
    LET packet == OpusEncode(audio, encOut)
        call == [pkt |-> packet, of |-> audio, ok |-> sockOut # "raise"]
    IN  [ret |-> TRUE, raised |-> FALSE, calls |-> <<call>>]

\* AudioComm.send: encode, sendto; any exception gives False.
\* `calls` is what reached socket.sendto.
CommSend(audio, encOut, sockOut) ==
    LET packet == OpusEncode(audio, encOut)
        call == [pkt |-> packet, of |-> audio, ok |-> sockOut # "raise"]
    IN  IF sockOut = "raise"
        THEN [ret |-> FALSE, raised |-> FALSE, calls |-> <<call>>]
        ELSE [ret |-> TRUE, raised |-> FALSE, calls |-> <<call>>]

\* Mutant of CommReceive: socket.timeout is not handled.
CommReceive_TimeoutRaises(id, sockOut, decOut) ==
    IF sockOut = "data"
    THEN LET d == OpusDecode(id, decOut)
         IN  IF d.raised
             THEN [audio |-> Zeros(SilenceLen), raised |-> FALSE, recv |-> 0, timeout |-> 0]
             ELSE [audio |-> d.audio, raised |-> FALSE, recv |-> 1, timeout |-> 0]
    ELSE IF sockOut = "timeout"
    THEN [audio |-> <<>>, raised |-> TRUE, recv |-> 0, timeout |-> 0]
    ELSE [audio |-> Zeros(SilenceLen), raised |-> FALSE, recv |-> 0, timeout |-> 0]

\* Mutant of CommReceive: only socket.timeout is handled, other socket
\* errors propagate.
CommReceive_ErrorPropagates(id, sockOut, decOut) ==
    IF sockOut = "data"
    THEN LET d == OpusDecode(id, decOut)
         IN  IF d.raised
             THEN [audio |-> <<>>, raised |-> TRUE, recv |-> 0, timeout |-> 0]
             ELSE [audio |-> d.audio, raised |-> FALSE, recv |-> 1, timeout |-> 0]
    ELSE IF sockOut = "timeout"
    THEN [audio |-> Zeros(SilenceLen), raised |-> FALSE, recv |-> 0, timeout |-> 1]
    ELSE [audio |-> <<>>, raised |-> TRUE, recv |-> 0, timeout |-> 0]

\* Mutant of CommReceive: a datagram whose frame number was already seen
\* is discarded.
CommReceive_DropsDuplicate(id, sockOut, decOut) ==
    IF sockOut = "data" /\ ~(\E j \in 1..(id - 1) : wire[j] = wire[id])
    THEN LET d == OpusDecode(id, decOut)
         IN  IF d.raised
             THEN [audio |-> Zeros(SilenceLen), raised |-> FALSE, recv |-> 0, timeout |-> 0]
             ELSE [audio |-> d.audio, raised |-> FALSE, recv |-> 1, timeout |-> 0]
    ELSE IF sockOut = "timeout"
    THEN [audio |-> Zeros(SilenceLen), raised |-> FALSE, recv |-> 0, timeout |-> 1]
    ELSE [audio |-> Zeros(SilenceLen), raised |-> FALSE, recv |-> 0, timeout |-> 0]

\* AudioComm.receive: recvfrom, decode, count; zeros on timeout and on any
\* other exception.
CommReceive(id, sockOut, decOut) ==
    IF sockOut = "data"
    THEN LET d == OpusDecode(id, decOut)
         IN  IF d.raised
             THEN [audio |-> Zeros(SilenceLen), raised |-> FALSE, recv |-> 0, timeout |-> 0]
             ELSE [audio |-> d.audio, raised |-> FALSE, recv |-> 1, timeout |-> 0]
    ELSE IF sockOut = "timeout"
    THEN [audio |-> Zeros(SilenceLen), raised |-> FALSE, recv |-> 0, timeout |-> 1]
    ELSE [audio |-> Zeros(SilenceLen), raised |-> FALSE, recv |-> 0, timeout |-> 0]

\* ----------------------------------------------------- configuration
\* The processor lists main() can build.
ProcessorLists == {<<"bypass">>, <<"bypass", "ai">>, <<"bypass", "classical">>,
                   <<"bypass", "ai", "classical">>}

\* What main() is started with: enable_ai and enable_classical of the config
\* file, and whether AIDenoiserProcessor(model_name) loads.
NoProcessors == [enable_ai |-> FALSE, enable_classical |-> FALSE, load_ok |-> TRUE]

LaunchConfigs ==
    {c \in [enable_ai : BOOLEAN, enable_classical : BOOLEAN, load_ok : BOOLEAN] :
        ~c.enable_ai => c.load_ok}

\* main(): Bypass first, then the AI denoiser and the classical filters as
\* the config enables them.  demo/duplex catches a failed load, prints a
\* warning and goes on without the denoiser; demo/duplex_public_wifi lets the
\* exception end main() before FullDuplexModular is constructed.
MainProcessors(v, c) ==
    LET bypass == <<"bypass">>
        ai == IF c.enable_ai /\ c.load_ok THEN <<"ai">> ELSE <<>>
        classical == IF c.enable_classical THEN <<"classical">> ELSE <<>>
    IN  IF v = "wifi" /\ c.enable_ai /\ ~c.load_ok
        THEN [aborted |-> TRUE, processors |-> bypass]
        ELSE [aborted |-> FALSE, processors |-> bypass \o ai \o classical]

\* Nothing handled yet.
NoSend == [got |-> 0, batch |-> <<>>, kind |-> "none", fault |-> FALSE,
           calls |-> <<>>, counted |-> 0, idx |-> 0, mixed |-> FALSE]

NoRecv == [poll |-> 0, sock |-> "none", dec |-> "ok", rx |-> <<>>, kind |-> "none",
           fault |-> FALSE, raised |-> FALSE, offers |-> <<>>, counted |-> 0,
           idx |-> 0, mixed |-> FALSE]

\* What recvfrom returns, poll by poll, as the frame numbers the peer gave
\* to its datagrams: UDP delivers them in order, swapped, or twice.
WireLen == IF MaxPolls > MaxPollsWifi THEN MaxPolls ELSE MaxPollsWifi
InOrder == [k \in 1..WireLen |-> k]
Swapped == [k \in 1..WireLen |-> IF k = 1 THEN 2 ELSE IF k = 2 THEN 1 ELSE k]
Duplicated == [k \in 1..WireLen |-> IF k = 1 THEN 1 ELSE k - 1]

InitBase(variants, sizes, wires) ==
    /\ variant \in variants
    /\ buffer_size \in sizes
    /\ wire \in wires
    /\ launch \in LaunchConfigs
    /\ (variant = "comm" => launch = NoProcessors)
    /\ LET m == MainProcessors(variant, launch)
       IN  /\ processors = m.processors
           /\ main_pc = (IF m.aborted THEN "aborted" ELSE "constructed")
           /\ sockets_open = ~m.aborted
    /\ processors \in ProcessorLists
    /\ running = (variant # "wifi")
    /\ send_queue = <<>>
    /\ recv_queue = <<>>
    /\ captured = 0
    /\ last_mic = [id |-> 0, dropped |-> FALSE]
    /\ send_pc = "idle"
    /\ batch_buffer = <<>>
    /\ s_proc = 0
    /\ packets_sent = 0
    /\ last_send = NoSend
    /\ recv_pc = "idle"
    /\ r_frame = <<>>
    /\ audio_buffer = <<>>
    /\ packets_received = 0
    /\ recv_count = 0
    /\ timeout_count = 0
    /\ polls = 0
    /\ last_recv = NoRecv
    /\ outdata = [data |-> <<>>, from_queue |-> FALSE]
    /\ played = 0
    /\ send_puts = 0
    /\ recv_puts = 0
    /\ send_faults = 0
    /\ recv_faults = 0

\* initial_processor of the config names one of the processors.
InitOn(variants, sizes, wires) ==
    /\ InitBase(variants, sizes, wires)
    /\ current_idx \in 0..(Len(processors) - 1)

\* ---------------------------------------------- the two endpoints
Roles == {"A", "B"}
Peer(role) == IF role = "A" THEN "B" ELSE "A"

\* FullDuplexComm.__init__ / argparse defaults of --send-port, --recv-port
DefaultSendPort == 9998
DefaultRecvPort == 9999
DefaultPorts == [send_port |-> DefaultSendPort, recv_port |-> DefaultRecvPort]

\* CONFIG of the launcher: the per-role port settings
LauncherConfig ==
    [A |-> [send_port |-> 9999, recv_port |-> 9998],
     B |-> [send_port |-> 9998, recv_port |-> 9999]]

\* The port settings an endpoint can be started with.
PortSettings == [send_port : {DefaultSendPort, DefaultRecvPort},
                 recv_port : {DefaultSendPort, DefaultRecvPort}]

\* FullDuplexComm.__init__, port assignment: role A uses the ports as
\* given, any other role swaps them.
PortAssignment(role, send_port, recv_port) ==
    IF role = "A"
    THEN [send_port |-> send_port, recv_port |-> recv_port]
    ELSE [send_port |-> recv_port, recv_port |-> send_port]

NotConstructed == [send_port |-> 0, recv_port |-> 0]

\* No endpoint pair is being set up.
LinkIdle ==
    /\ port_args = [r \in Roles |-> DefaultPorts]
    /\ endpoints = [r \in Roles |-> NotConstructed]
    /\ dgrams_sent = [r \in Roles |-> 0]
    /\ heard = [r \in Roles |-> 0]

\* FullDuplexComm(role, ..., send_port, recv_port): assign the ports and
\* bind the receive socket.
CommConstruct(role) ==
    /\ endpoints[role] = NotConstructed
    /\ endpoints' = [endpoints EXCEPT ![role] =
                        PortAssignment(role, port_args[role].send_port,
                                       port_args[role].recv_port)]
    /\ UNCHANGED <<cfgVars, pcmVars, port_args, dgrams_sent, heard, mainVars, ctlVars,
                   sendVars, recvVars>>

\* send_socket.sendto(packet, (peer_ip, send_port)): the datagram reaches the
\* peer's socket when the peer has bound that port, and is lost otherwise.
CommSendDatagram(role) ==
    /\ endpoints[role] # NotConstructed
    /\ dgrams_sent[role] < MaxDatagrams
    /\ dgrams_sent' = [dgrams_sent EXCEPT ![role] = @ + 1]
    /\ heard' = IF endpoints[Peer(role)].recv_port = endpoints[role].send_port
                THEN [heard EXCEPT ![Peer(role)] = @ + 1]
                ELSE heard
    /\ UNCHANGED <<cfgVars, pcmVars, port_args, endpoints, mainVars, ctlVars, sendVars,
                   recvVars>>

LinkNext == \E role \in Roles : CommConstruct(role) \/ CommSendDatagram(role)

\* --------------------------------------------- sample conversions
\* A frame of samples with its numpy dtype: sample i has the value
\* s[i] / PcmScale^d (d = 0: integers; d = 1: floats in steps of 1/32767).
\* Rounding inside float32 arithmetic is not modelled.
PcmScale == 32767
Int16Min == -32768
Int16Max == 32767

Frame16(dtype, d, s) == [dtype |-> dtype, d |-> d, s |-> s]

\* Two's complement wrap-around of an integer into int16.
Wrap16(i) == ((i - Int16Min) % (Int16Max - Int16Min + 1)) + Int16Min

InInt16(i) == Int16Min <= i /\ i <= Int16Max

\* audio * 32767: an int16 array times a Python int stays int16 and wraps;
\* a float array is scaled.
Times32767(a) ==
    IF a.dtype = "int16"
    THEN Frame16("int16", 0, [i \in DOMAIN a.s |-> Wrap16(a.s[i] * PcmScale)])
    ELSE IF a.d > 0
    THEN Frame16(a.dtype, a.d - 1, a.s)
    ELSE Frame16(a.dtype, 0, [i \in DOMAIN a.s |-> a.s[i] * PcmScale])

\* Some product of audio * 32767 lies outside the int16 range.
ProductLeavesInt16(a) ==
    \E i \in DOMAIN a.s :
        IF a.d > 0 /\ a.dtype # "int16" THEN ~InInt16(a.s[i])
        ELSE ~InInt16(a.s[i] * PcmScale)

\* np.clip(a, -32768, 32767) of whole-valued samples
Clip16(a) ==
    Frame16(a.dtype, a.d,
            [i \in DOMAIN a.s |->
                IF a.s[i] < Int16Min THEN Int16Min
                ELSE IF a.s[i] > Int16Max THEN Int16Max ELSE a.s[i]])

\* a.astype(np.int16) of whole-valued samples
AsInt16(a) == Frame16("int16", 0, [i \in DOMAIN a.s |-> Wrap16(a.s[i])])

\* a.astype(np.float32) / 32767.0
Div32767(a) == Frame16("float32", a.d + 1, a.s)

\* OpusCodec.encode up to the encoder call: pcm = (audio * 32767).astype(np.int16)
EncodePcm(audio) == AsInt16(Times32767(audio))

\* OpusCodec.decode after the decoder call: int16 samples to float32 / 32767.0
DecodePcm(decoded) == Div32767(decoded)

\* FullDuplexComm.send_thread: np.clip(audio_denoised * 32767, -32768, 32767).astype(np.int16)
CommToInt16(audio_denoised) == AsInt16(Clip16(Times32767(audio_denoised)))

\* Samples of the frames handed in: floats as multiples of 1/32767, and the
\* int16 values the codec tests use.
FloatSamples == {-32767, -1, 0, 1, 30000, 32767}
LoudFloatSamples == FloatSamples \cup {40000}
Int16Samples == {-3, 0, 1, 2, 30000}

Frames(dtype, d, samples) ==
    {Frame16(dtype, d, s) : s \in [1..MaxSamples -> samples]}

NoFrame == Frame16("none", 0, <<>>)

\* No frame is being followed through the conversions.
PcmIdle ==
    /\ cx_path = "none"
    /\ cx_in = NoFrame
    /\ cx_pc = "idle"
    /\ cx_val = NoFrame
    /\ cx_muls = 0
    /\ cx_divs = 0
    /\ cx_wrapped = FALSE

\* codec.encode(audio) called directly (AudioComm.send, the codec tests):
\* the PCM conversion, then the encoder; the packet carries the PCM frame.
CodecEncode ==
    /\ cx_path = "codec"
    /\ cx_pc = "start"
    /\ cx_val' = EncodePcm(cx_val)
    /\ cx_muls' = cx_muls + 1
    /\ cx_wrapped' = ProductLeavesInt16(cx_val)
    /\ cx_pc' = "packet"
    /\ UNCHANGED <<cfgVars, linkVars, cx_path, cx_in, cx_divs, mainVars, ctlVars,
                   sendVars, recvVars>>

\* codec.decode(packet) called directly (AudioComm.receive, the codec tests)
CodecDecode ==
    /\ cx_path = "codec"
    /\ cx_pc = "packet"
    /\ cx_val' = DecodePcm(cx_val)
    /\ cx_divs' = cx_divs + 1
    /\ cx_pc' = "decoded"
    /\ UNCHANGED <<cfgVars, linkVars, cx_path, cx_in, cx_muls, cx_wrapped, mainVars,
                   ctlVars, sendVars, recvVars>>

\* FullDuplexComm.send_thread from `audio_int16 = np.clip(...)` to sendto:
\* its own conversion, then codec.encode of the int16 frame.
CommSendFrame ==
    /\ cx_path = "comm"
    /\ cx_pc = "start"
    /\ LET audio_int16 == CommToInt16(cx_val)
       IN  /\ cx_val' = EncodePcm(audio_int16)
           /\ cx_wrapped' = ProductLeavesInt16(audio_int16)
    /\ cx_muls' = cx_muls + 2
    /\ cx_pc' = "packet"
    /\ UNCHANGED <<cfgVars, linkVars, cx_path, cx_in, cx_divs, mainVars, ctlVars,
                   sendVars, recvVars>>

\* FullDuplexComm.recv_thread from codec.decode to the float frame:
\* codec.decode, then its own astype(np.float32) / 32767.0.
CommRecvFrame ==
    /\ cx_path = "comm"
    /\ cx_pc = "packet"
    /\ cx_val' = Div32767(DecodePcm(cx_val))
    /\ cx_divs' = cx_divs + 2
    /\ cx_pc' = "decoded"
    /\ UNCHANGED <<cfgVars, linkVars, cx_path, cx_in, cx_muls, cx_wrapped, mainVars,
                   ctlVars, sendVars, recvVars>>

PcmNext == CodecEncode \/ CodecDecode \/ CommSendFrame \/ CommRecvFrame

InitWith(variants, sizes) == InitOn(variants, sizes, {InOrder}) /\ LinkIdle /\ PcmIdle

\* --------------------------------------------------- control thread
\* run() / start() up to the main loop: the worker threads are started; the
\* wifi program sets the running flag here, the others set it in __init__.
Start ==
    /\ main_pc = "constructed"
    /\ main_pc' = "running"
    /\ running' = TRUE
    /\ send_pc' = "open"
    /\ recv_pc' = "open"
    /\ UNCHANGED <<cfgVars, linkVars, pcmVars, sockets_open, current_idx, send_queue, captured,
                   last_mic, batch_buffer, s_proc, packets_sent, last_send,
                   send_puts, send_faults, recv_queue, r_frame, audio_buffer,
                   packets_received, recv_count, timeout_count, polls, last_recv,
                   outdata, played, recv_puts, recv_faults>>

\* Mutant of NextIdx: the toggle skips a processor.
NextIdx_Skip(idx, n) == (idx + 2) % n

\* (self.current_idx + 1) % len(self.processors)
NextIdx(idx, n) == (idx + 1) % n

\* toggle_thread / input_thread: Enter cycles the processor.
ToggleProcessor ==
    /\ variant # "comm"
    /\ main_pc = "running"
    /\ running
    /\ current_idx' = NextIdx(current_idx, Len(processors))
    /\ UNCHANGED <<cfgVars, linkVars, pcmVars, mainVars, running, sendVars, recvVars>>

\* toggle_thread / input_thread: 'q' clears the running flag.
Quit ==
    /\ variant # "comm"
    /\ main_pc = "running"
    /\ running
    /\ running' = FALSE
    /\ UNCHANGED <<cfgVars, linkVars, pcmVars, mainVars, current_idx, sendVars, recvVars>>

\* Ctrl+C while the main thread sleeps in its loop: the KeyboardInterrupt
\* handler clears the running flag and goes on to join the workers.
KeyboardInterrupt ==
    /\ main_pc = "running"
    /\ running' = FALSE
    /\ main_pc' = "join"
    /\ UNCHANGED <<cfgVars, linkVars, pcmVars, sockets_open, current_idx, sendVars, recvVars>>

\* ------------------------------------------------------- main thread
\* start() of the wifi program: `while self.running:` sleeps and copies
\* comm.recv_count into packets_received; the loop ends once the flag is
\* cleared.  run() of the other programs sleeps in `while True:`.
MainLoop ==
    /\ variant = "wifi"
    /\ main_pc = "running"
    /\ IF running
       THEN /\ packets_received' = recv_count
            /\ UNCHANGED main_pc
       ELSE /\ main_pc' = "join"
            /\ UNCHANGED packets_received
    /\ UNCHANGED <<cfgVars, linkVars, pcmVars, sockets_open, ctlVars, sendVars, recv_queue, recv_pc,
                   r_frame, audio_buffer, recv_count, timeout_count, polls,
                   last_recv, outdata, played, recv_puts, recv_faults>>

\* send_t.join(timeout=2); recv_t.join(timeout=2): returns whether or not
\* the workers have stopped.
MainJoin ==
    /\ main_pc = "join"
    /\ main_pc' = "joined"
    /\ UNCHANGED <<cfgVars, linkVars, pcmVars, sockets_open, ctlVars, sendVars, recvVars>>

\* The statistics are printed; demo/duplex then calls comm.close(), the
\* other two programs return without closing the sockets.
MainFinish ==
    /\ main_pc = "joined"
    /\ main_pc' = "done"
    /\ sockets_open' = (IF variant = "duplex" THEN FALSE ELSE sockets_open)
    /\ UNCHANGED <<cfgVars, linkVars, pcmVars, ctlVars, sendVars, recvVars>>

MainNext ==
    \/ KeyboardInterrupt
    \/ MainLoop
    \/ MainJoin
    \/ MainFinish

\* ------------------------------------------------- capture direction
\* The audio callback of a direction fires while its worker is inside the
\* `with sd.InputStream(...)` / `with sd.OutputStream(...)` block.
StreamActive(pc) == pc \notin {"idle", "open", "failed", "stopped"}

\* send_thread: `with sd.InputStream(...)`.  If the device cannot be opened
\* the exception ends the thread.
SendOpenStream ==
    /\ send_pc = "open"
    /\ \E ok \in BOOLEAN : send_pc' = (IF ok THEN "top" ELSE "failed")
    /\ UNCHANGED <<cfgVars, linkVars, pcmVars, mainVars, ctlVars, recvVars, send_queue, captured,
                   last_mic, batch_buffer, s_proc, packets_sent, last_send,
                   send_puts, send_faults>>

\* Mutant of MicCallbackPut: the new frame is put at the head of the queue.
MicCallbackPut_AtHead(q, maxsize, frame) ==
    IF QueueFull(q, maxsize)
    THEN [q |-> q, dropped |-> TRUE]
    ELSE [q |-> <<frame>> \o q, dropped |-> FALSE]

\* Mutant of MicCallbackPut: a full queue drops its oldest frame to make room.
MicCallbackPut_DropOldest(q, maxsize, frame) ==
    IF QueueFull(q, maxsize)
    THEN [q |-> Append(Tail(q), frame), dropped |-> TRUE]
    ELSE [q |-> Append(q, frame), dropped |-> FALSE]

\* mic_callback: put(mono, block=False); queue.Full is swallowed.
MicCallbackPut(q, maxsize, frame) ==
    LET r == PutNowait(q, maxsize, frame)
    IN  [q |-> r.q, dropped |-> r.full]

MicCallback ==
    /\ captured < CaptureBound
    /\ StreamActive(send_pc)
    /\ LET frame == <<Seg(captured + 1, "audio", ChunkSize48k)>>
           r == MicCallbackPut(send_queue, QueueCap, frame)
       IN  /\ send_queue' = r.q
           /\ last_mic' = [id |-> captured + 1, dropped |-> r.dropped]
    /\ captured' = captured + 1
    /\ send_puts' = Min(send_puts + 1, QueueCap + 1)
    /\ UNCHANGED <<cfgVars, linkVars, pcmVars, mainVars, ctlVars, recvVars, send_pc, batch_buffer, s_proc,
                   packets_sent, last_send, send_faults>>

\* Mutant of SendTop: the loop does not look at the running flag.
SendTop_IgnoresFlag ==
    /\ variant \in {"duplex", "wifi"}
    /\ send_pc = "top"
    /\ send_pc' = "get"
    /\ UNCHANGED <<cfgVars, linkVars, pcmVars, mainVars, ctlVars, recvVars, send_queue, captured,
                   last_mic, batch_buffer, s_proc, packets_sent, last_send,
                   send_puts, send_faults>>

\* `while self.running:` of send_thread
SendTop ==
    /\ variant \in {"duplex", "wifi"}
    /\ send_pc = "top"
    /\ send_pc' = IF running THEN "get" ELSE "stopped"
    /\ UNCHANGED <<cfgVars, linkVars, pcmVars, mainVars, ctlVars, recvVars, send_queue, captured, last_mic,
                   batch_buffer, s_proc, packets_sent, last_send, send_puts,
                   send_faults>>

\* send_queue.get(timeout=0.1) raising queue.Empty: `continue`
SendGetTimeout ==
    /\ variant \in {"duplex", "wifi"}
    /\ send_pc = "get"
    /\ send_queue = <<>>
    /\ send_pc' = "top"
    /\ UNCHANGED <<cfgVars, linkVars, pcmVars, mainVars, ctlVars, recvVars, send_queue, captured, last_mic,
                   batch_buffer, s_proc, packets_sent, last_send, send_puts,
                   send_faults>>

\* One iteration of FullDuplexModular.send_thread (duplex): get, downsample,
\* comm.send of the unprocessed frame, count.
SendIterDuplex(q, encOut, sockOut) ==
    LET audio_48k == Head(q)
        audio_16k == Downsample48kTo16k(audio_48k)
        r == CommSend(audio_16k, encOut, sockOut)
    IN  [q |-> Tail(q),
         calls |-> r.calls,
         counted |-> IF ~r.raised /\ r.ret THEN 1 ELSE 0,
         raised |-> r.raised,
         log |-> [got |-> audio_48k[1].id, batch |-> <<audio_48k[1].id>>,
                  kind |-> "none", fault |-> FALSE, calls |-> r.calls,
                  counted |-> (IF ~r.raised /\ r.ret THEN 1 ELSE 0),
                  idx |-> 0, mixed |-> FALSE]]

SendDuplex ==
    /\ variant = "duplex"
    /\ send_pc = "get"
    /\ send_queue # <<>>
    /\ \E encOut \in {"ok", "error"}, sockOut \in {"ok", "raise"} :
         LET it == SendIterDuplex(send_queue, encOut, sockOut)
             n == (IF encOut = "ok" THEN 0 ELSE 1) + (IF sockOut = "ok" THEN 0 ELSE 1)
         IN  /\ send_faults + n <= MaxFaults
             /\ send_faults' = send_faults + n
             /\ send_queue' = it.q
             /\ packets_sent' = packets_sent + it.counted
             /\ last_send' = it.log
    /\ send_puts' = 0
    /\ send_pc' = "top"
    /\ UNCHANGED <<cfgVars, linkVars, pcmVars, mainVars, ctlVars, recvVars, captured, last_mic,
                   batch_buffer, s_proc>>

\* Mutant of FlushQueue: the flush keeps the oldest frames and discards the
\* newest.
FlushQueue_KeepsOldest(q) ==
    IF Len(q) > MaxQueueSize
    THEN SubSeq(q, 1, FlushKeep)
    ELSE q

\* The queue flush at the top of the wifi send loop: with more than
\* max_queue_size frames queued, get_nowait until 3 remain.
FlushQueue(q) ==
    IF Len(q) > MaxQueueSize
    THEN SubSeq(q, Len(q) - FlushKeep + 1, Len(q))
    ELSE q

\* np.concatenate(batch_buffer)
RECURSIVE Concatenate(_)
Concatenate(b) == IF b = <<>> THEN <<>> ELSE Head(b) \o Concatenate(Tail(b))

SourceIds(a) == [i \in 1..Len(a) |-> a[i].id]

\* wifi send_thread, first half of an iteration: flush, get, downsample,
\* batch_buffer.append, `processor = self.processors[self.current_idx]`.
SendWifiGet ==
    /\ variant = "wifi"
    /\ send_pc = "get"
    /\ send_queue # <<>>
    /\ LET q == FlushQueue(send_queue)
           audio_16k == Downsample48kTo16k(Head(q))
       IN  /\ send_queue' = Tail(q)
           /\ batch_buffer' = Append(batch_buffer, audio_16k)
    /\ s_proc' = current_idx
    /\ send_puts' = 0
    /\ send_pc' = "proc"
    /\ UNCHANGED <<cfgVars, linkVars, pcmVars, mainVars, ctlVars, recvVars, captured, last_mic,
                   packets_sent, last_send, send_faults>>

\* `for i in range(num_chunks)`: slice 320 samples, comm.send, count.
\* Chunk number `bad` (1-based, 0 for none) meets the fault `badKind`.
RECURSIVE SendChunks(_, _, _, _, _)
SendChunks(audio, i, n, bad, badKind) ==
    IF i >= n THEN [calls |-> <<>>, sent |-> 0, raised |-> FALSE]
    ELSE LET chunk_320 == Take(Drop(audio, i * OpusChunk), OpusChunk)
             encOut == IF bad = i + 1 /\ badKind = "enc" THEN "error" ELSE "ok"
             sockOut == IF bad = i + 1 /\ badKind = "sock" THEN "raise" ELSE "ok"
             r == CommSend(chunk_320, encOut, sockOut)
         IN  IF r.raised
             THEN [calls |-> r.calls, sent |-> 0, raised |-> TRUE]
             ELSE LET rest == SendChunks(audio, i + 1, n, bad, badKind)
                  IN  [calls |-> r.calls \o rest.calls,
                       sent |-> (IF r.ret THEN 1 ELSE 0) + rest.sent,
                       raised |-> rest.raised]

\* wifi send_thread, second half of an iteration: is_bypass, concatenate,
\* processor.process, split and send, clear the batch.  An exception leaves
\* the try block at the point it is raised.
SendIterWifi(batch, idx, is_bypass, fault, bad, badKind) ==
    LET got == batch[Len(batch)][1].id
        kind == processors[idx + 1]
        skip == [batch |-> batch, calls |-> <<>>, sent |-> 0,
                 log |-> [got |-> got, batch |-> <<>>, kind |-> "skip",
                          fault |-> FALSE, calls |-> <<>>, counted |-> 0,
                          idx |-> idx, mixed |-> FALSE]]
    IN  IF ~(Len(batch) >= BatchSize \/ is_bypass) THEN skip
        ELSE LET audio_batch == IF Len(batch) > 1 THEN Concatenate(batch) ELSE batch[1]
                 p == ProcessorProcess(kind, audio_batch, fault)
                 entry == [got |-> got, batch |-> SourceIds(audio_batch), kind |-> kind,
                           fault |-> p.raised, calls |-> <<>>, counted |-> 0,
                           idx |-> idx, mixed |-> FALSE]
             IN  IF p.raised
                 THEN [batch |-> batch, calls |-> <<>>, sent |-> 0, log |-> entry]
                 ELSE LET num_chunks == SumLen(p.audio) \div OpusChunk
                          r == SendChunks(p.audio, 0, num_chunks, bad, badKind)
                      IN  [batch |-> IF r.raised THEN batch ELSE <<>>,
                           calls |-> r.calls, sent |-> r.sent,
                           log |-> [entry EXCEPT !.calls = r.calls, !.counted = r.sent]]

SendWifiProcess ==
    /\ variant = "wifi"
    /\ send_pc = "proc"
    /\ \E fault \in {FALSE, processors[s_proc + 1] = "ai"},
          bad \in 0..(SumLen(Concatenate(batch_buffer)) \div OpusChunk),
          badKind \in {"enc", "sock"} :
         /\ (bad = 0 => badKind = "enc")
         /\ (fault => bad = 0)
         /\ LET n == IF fault \/ bad # 0 THEN 1 ELSE 0
            IN  /\ send_faults + n <= MaxFaults
                /\ send_faults' = send_faults + n
         /\ LET it == SendIterWifi(batch_buffer, s_proc, current_idx = 0,
                                   fault, bad, badKind)
            IN  /\ batch_buffer' = it.batch
                /\ packets_sent' = packets_sent + it.sent
                /\ last_send' = [it.log EXCEPT !.mixed = (s_proc # current_idx)]
    /\ send_pc' = "top"
    /\ UNCHANGED <<cfgVars, linkVars, pcmVars, mainVars, ctlVars, recvVars, send_queue, captured, last_mic,
                   s_proc, send_puts>>

\* ------------------------------------------------ playback direction
\* Mutant of SpeakerCallbackGet: the head frame is played but stays queued.
SpeakerCallbackGet_Peek(q, frames) ==
    IF q = <<>>
    THEN [q |-> q, out |-> [data |-> Zeros(frames), from_queue |-> FALSE]]
    ELSE [q |-> q, out |-> [data |-> Head(q), from_queue |-> TRUE]]

\* speaker_callback: get(block=False) and copy to both channels, or
\* outdata.fill(0) on queue.Empty.
SpeakerCallbackGet(q, frames) ==
    IF q = <<>>
    THEN [q |-> q, out |-> [data |-> Zeros(frames), from_queue |-> FALSE]]
    ELSE [q |-> Tail(q), out |-> [data |-> Head(q), from_queue |-> TRUE]]

SpeakerCallback ==
    /\ played < MaxPlay
    /\ StreamActive(recv_pc)
    /\ LET r == SpeakerCallbackGet(recv_queue, ChunkSize48k)
       IN  /\ recv_queue' = r.q
           /\ outdata' = r.out
           /\ recv_puts' = IF r.out.from_queue THEN 0 ELSE recv_puts
    /\ played' = played + 1
    /\ UNCHANGED <<cfgVars, linkVars, pcmVars, mainVars, ctlVars, sendVars, recv_pc, r_frame, audio_buffer,
                   packets_received, recv_count, timeout_count, polls, last_recv,
                   recv_faults>>

\* recv_thread: `with sd.OutputStream(...)`.  If the device cannot be opened
\* the exception ends the thread.
RecvOpenStream ==
    /\ recv_pc = "open"
    /\ \E ok \in BOOLEAN : recv_pc' = (IF ok THEN "top" ELSE "failed")
    /\ UNCHANGED <<cfgVars, linkVars, pcmVars, mainVars, ctlVars, sendVars, recv_queue, r_frame,
                   audio_buffer, packets_received, recv_count, timeout_count,
                   polls, last_recv, outdata, played, recv_puts, recv_faults>>

\* `while self.running:` of recv_thread
RecvTop ==
    /\ recv_pc = "top"
    /\ (running => polls < PollBound)
    /\ recv_pc' = IF running THEN "poll" ELSE "stopped"
    /\ UNCHANGED <<cfgVars, linkVars, pcmVars, mainVars, ctlVars, sendVars, recv_queue, r_frame, audio_buffer,
                   packets_received, recv_count, timeout_count, polls, last_recv,
                   outdata, played, recv_puts, recv_faults>>

\* What the socket and the decoder do on one poll.
PollOutcomes == {<<"data", "ok">>, <<"data", "error">>, <<"timeout", "ok">>,
                 <<"oserror", "ok">>}

PollFaults(o) == IF o \in {<<"data", "error">>, <<"oserror", "ok">>} THEN 1 ELSE 0

\* upsample, reshape(-1, 1), recv_queue.put(block=False), packets_received += 1;
\* queue.Full skips the count.
RecvPut(audio_16k, q, maxsize) ==
    LET audio_48k == Upsample16kTo48k(audio_16k)
        r == PutNowait(q, maxsize, audio_48k)
    IN  [q |-> r.q, audio |-> audio_48k, accepted |-> ~r.full,
         counted |-> IF r.full THEN 0 ELSE 1]

\* duplex recv_thread up to `if self.current_idx > 0`; with Bypass selected
\* the iteration runs to its end.
RecvDuplexPoll ==
    /\ variant = "duplex"
    /\ recv_pc = "poll"
    /\ \E o \in PollOutcomes :
         LET rx == CommReceive(polls + 1, o[1], o[2])
             entry == [poll |-> polls + 1, sock |-> o[1], dec |-> o[2],
                       rx |-> rx.audio, kind |-> "none", fault |-> FALSE,
                       raised |-> rx.raised, offers |-> <<>>, counted |-> 0,
                       idx |-> current_idx, mixed |-> FALSE]
         IN  /\ recv_faults + PollFaults(o) <= MaxFaults
             /\ recv_faults' = recv_faults + PollFaults(o)
             /\ recv_count' = recv_count + rx.recv
             /\ timeout_count' = timeout_count + rx.timeout
             /\ IF rx.raised
                THEN /\ recv_pc' = "top"
                     /\ last_recv' = entry
                     /\ UNCHANGED <<r_frame, recv_queue, packets_received, recv_puts>>
                ELSE IF current_idx > 0
                THEN /\ r_frame' = rx.audio
                     /\ recv_pc' = "proc"
                     /\ last_recv' = entry
                     /\ UNCHANGED <<recv_queue, packets_received, recv_puts>>
                ELSE LET p == RecvPut(rx.audio, recv_queue, QueueCap)
                     IN  /\ recv_queue' = p.q
                         /\ last_recv' = [entry EXCEPT
                                !.offers = <<[audio |-> p.audio, accepted |-> p.accepted]>>,
                                !.counted = p.counted]
                         /\ packets_received' = packets_received + p.counted
                         /\ recv_puts' = Min(recv_puts + 1, QueueCap + 1)
                         /\ recv_pc' = "top"
                         /\ UNCHANGED r_frame
    /\ polls' = polls + 1
    /\ UNCHANGED <<cfgVars, linkVars, pcmVars, mainVars, ctlVars, sendVars, audio_buffer, outdata, played>>

\* list[idx] of a non-negative idx
IndexValid(idx, list) == idx + 1 \in DOMAIN list

\* duplex recv_thread from `processor = self.processors[self.current_idx]`
\* to the end of the iteration.
RecvDuplexProcess ==
    /\ variant = "duplex"
    /\ recv_pc = "proc"
    /\ IndexValid(current_idx, processors)
    /\ \E fault \in {FALSE, processors[current_idx + 1] = "ai"} :
         LET kind == processors[current_idx + 1]
             pr == ProcessorProcess(kind, r_frame, fault)
             n == IF fault THEN 1 ELSE 0
         IN  /\ recv_faults + n <= MaxFaults
             /\ recv_faults' = recv_faults + n
             /\ IF pr.raised
                THEN /\ last_recv' = [last_recv EXCEPT !.kind = kind, !.fault = TRUE,
                                !.idx = current_idx,
                                !.mixed = (last_recv.idx # current_idx)]
                     /\ UNCHANGED <<recv_queue, packets_received, recv_puts>>
                ELSE LET p == RecvPut(pr.audio, recv_queue, QueueCap)
                     IN  /\ recv_queue' = p.q
                         /\ last_recv' = [last_recv EXCEPT !.kind = kind,
                                !.offers = <<[audio |-> p.audio, accepted |-> p.accepted]>>,
                                !.counted = p.counted,
                                !.idx = current_idx,
                                !.mixed = (last_recv.idx # current_idx)]
                         /\ packets_received' = packets_received + p.counted
                         /\ recv_puts' = Min(recv_puts + 1, QueueCap + 1)
    /\ recv_pc' = "top"
    /\ UNCHANGED <<cfgVars, linkVars, pcmVars, mainVars, ctlVars, sendVars, r_frame, audio_buffer, recv_count,
                   timeout_count, polls, outdata, played>>

\* duplex recv_thread, `processor = self.processors[self.current_idx]` with
\* an index past the end of the list: IndexError, caught by the loop's
\* `except Exception`, the frame is not passed on.
RecvDuplexIndexError ==
    /\ variant = "duplex"
    /\ recv_pc = "proc"
    /\ ~IndexValid(current_idx, processors)
    /\ last_recv' = [last_recv EXCEPT !.kind = "IndexError", !.fault = TRUE,
                                      !.idx = current_idx,
                                      !.mixed = (last_recv.idx # current_idx)]
    /\ recv_pc' = "top"
    /\ UNCHANGED <<cfgVars, linkVars, pcmVars, mainVars, ctlVars, sendVars, recv_queue,
                   r_frame, audio_buffer, packets_received, recv_count, timeout_count,
                   polls, outdata, played, recv_puts, recv_faults>>

\* Mutant of DrainChunks: a chunk is handed over only when more than
\* chunk_size samples have accumulated.
RECURSIVE DrainChunks_StrictThreshold(_, _, _, _, _)
DrainChunks_StrictThreshold(buf, q, maxsize, chunk_size, poll) ==
    IF SumLen(buf) <= chunk_size
    THEN [buf |-> buf, q |-> q, offers |-> <<>>]
    ELSE LET chunk == Take(buf, chunk_size)
             r == PutNowait(q, maxsize, chunk)
             rest == DrainChunks_StrictThreshold(Drop(buf, chunk_size), r.q,
                                                 maxsize, chunk_size, poll)
         IN  [buf |-> rest.buf, q |-> rest.q,
              offers |-> <<[audio |-> chunk, accepted |-> ~r.full]>> \o rest.offers]

\* wifi recv_thread: `while len(audio_buffer) >= self.chunk_size_48k`:
\* slice a chunk off the front and put_nowait it; queue.Full drops it.
RECURSIVE DrainChunks(_, _, _, _, _)
DrainChunks(buf, q, maxsize, chunk_size, poll) ==
    IF SumLen(buf) < chunk_size
    THEN [buf |-> buf, q |-> q, offers |-> <<>>]
    ELSE LET chunk == Take(buf, chunk_size)
             r == PutNowait(q, maxsize, chunk)
             rest == DrainChunks(Drop(buf, chunk_size), r.q, maxsize, chunk_size, poll)
         IN  [buf |-> rest.buf, q |-> rest.q,
              offers |-> <<[audio |-> chunk, accepted |-> ~r.full]>> \o rest.offers]

\* One iteration of the wifi recv_thread: receive, upsample, accumulate,
\* hand full chunks to the speaker queue.
RecvIterWifi(buf, q, maxsize, poll, sockOut, decOut) ==
    LET rx == CommReceive(poll, sockOut, decOut)
    IN  IF rx.raised
        THEN [buf |-> buf, q |-> q, offers |-> <<>>, rx |-> rx]
        ELSE LET audio_48k == Upsample16kTo48k(rx.audio)
                 d == DrainChunks(buf \o audio_48k, q, maxsize, ChunkWifi, poll)
             IN  [buf |-> d.buf, q |-> d.q, offers |-> d.offers, rx |-> rx]

RecvWifi ==
    /\ variant = "wifi"
    /\ recv_pc = "poll"
    /\ \E o \in PollOutcomes :
         \E it \in {RecvIterWifi(audio_buffer, recv_queue, QueueCap, polls + 1, o[1], o[2])} :
             /\ recv_faults + PollFaults(o) <= MaxFaults
             /\ recv_faults' = recv_faults + PollFaults(o)
             /\ last_recv' = [poll |-> polls + 1, sock |-> o[1], dec |-> o[2],
                    rx |-> it.rx.audio, kind |-> "none", fault |-> FALSE,
                    raised |-> it.rx.raised, offers |-> it.offers, counted |-> 0,
                    idx |-> 0, mixed |-> FALSE]
             /\ recv_count' = recv_count + it.rx.recv
             /\ timeout_count' = timeout_count + it.rx.timeout
             /\ audio_buffer' = it.buf
             /\ recv_queue' = it.q
             /\ recv_puts' = Min(recv_puts + Len(it.offers), QueueCap + 1)
    /\ polls' = polls + 1
    /\ recv_pc' = "top"
    /\ UNCHANGED <<cfgVars, linkVars, pcmVars, mainVars, ctlVars, sendVars, r_frame, packets_received,
                   outdata, played>>

\* One iteration of FullDuplexComm.recv_thread: recvfrom, codec.decode,
\* resample to 48 kHz, put; socket.timeout is `continue`.
RecvIterComm(q, maxsize, poll, sockOut, decOut) ==
    IF sockOut # "data"
    THEN [q |-> q, offers |-> <<>>, counted |-> 0, raised |-> FALSE]
    ELSE LET d == OpusDecode(poll, decOut)
         IN  IF d.raised
             THEN [q |-> q, offers |-> <<>>, counted |-> 0, raised |-> TRUE]
             ELSE LET p == RecvPut(d.audio, q, maxsize)
                  IN  [q |-> p.q, counted |-> p.counted, raised |-> FALSE,
                       offers |-> <<[audio |-> p.audio, accepted |-> p.accepted]>>]

RecvComm ==
    /\ variant = "comm"
    /\ recv_pc = "poll"
    /\ \E o \in PollOutcomes :
         LET it == RecvIterComm(recv_queue, QueueCap, polls + 1, o[1], o[2])
         IN  /\ recv_faults + PollFaults(o) <= MaxFaults
             /\ recv_faults' = recv_faults + PollFaults(o)
             /\ last_recv' = [poll |-> polls + 1, sock |-> o[1], dec |-> o[2],
                    rx |-> <<>>, kind |-> "none", fault |-> FALSE, raised |-> it.raised,
                    offers |-> it.offers, counted |-> it.counted,
                    idx |-> 0, mixed |-> FALSE]
             /\ recv_queue' = it.q
             /\ packets_received' = packets_received + it.counted
             /\ recv_puts' = Min(recv_puts + Len(it.offers), QueueCap + 1)
    /\ polls' = polls + 1
    /\ recv_pc' = "top"
    /\ UNCHANGED <<cfgVars, linkVars, pcmVars, mainVars, ctlVars, sendVars, r_frame, audio_buffer, recv_count,
                   timeout_count, outdata, played>>

RecvNext ==
    \/ RecvOpenStream
    \/ SpeakerCallback
    \/ RecvTop
    \/ RecvDuplexPoll
    \/ RecvDuplexProcess
    \/ RecvWifi
    \/ RecvComm

SendNext ==
    \/ SendOpenStream
    \/ MicCallback
    \/ SendTop
    \/ SendGetTimeout
    \/ SendDuplex
    \/ SendWifiGet
    \/ SendWifiProcess

ControlNext ==
    \/ Start
    \/ ToggleProcessor
    \/ Quit

\* The capture direction of a session whose processors all loaded.
InitSend == InitWith({"duplex", "wifi"}, 1..MaxBuf) /\ launch.load_ok

SpecSend == InitSend /\ [][SendNext \/ ControlNext]_vars

\* The playback direction of a session whose processors all loaded.
InitRecv == InitWith({"duplex", "wifi", "comm"}, 1..MaxBuf) /\ launch.load_ok

SpecRecv == InitRecv /\ [][RecvNext \/ ControlNext]_vars

\* The whole duplex program, both directions, configured with Bypass only
\* (enable_ai: false).
InitDuplexBypass == InitWith({"duplex"}, 1..MaxBuf) /\ launch = NoProcessors

NextDuplexBypass ==
    \/ Start
    \/ SendOpenStream
    \/ RecvOpenStream
    \/ MicCallback
    \/ SendTop
    \/ SendGetTimeout
    \/ SendDuplex
    \/ SpeakerCallback
    \/ RecvTop
    \/ RecvDuplexPoll
    \/ ToggleProcessor
    \/ Quit

SpecDuplex == InitDuplexBypass /\ [][NextDuplexBypass]_vars

Init == InitWith({"duplex", "wifi", "comm"}, 1..MaxBuf)

Next ==
    \/ SendNext
    \/ RecvNext
    \/ RecvDuplexIndexError
    \/ ControlNext
    \/ MainNext
    \/ LinkNext
    \/ PcmNext

Spec == Init /\ [][Next]_vars

\* The capture direction, also with a queue deep enough for the wifi send
\* thread's flush (buffer_size above max_queue_size).
InitOrder ==
    \/ InitSend
    \/ /\ InitWith({"wifi"}, {MaxQueueSize + 1})
       /\ launch = [enable_ai |-> TRUE, enable_classical |-> FALSE, load_ok |-> TRUE]
       /\ current_idx = 0

SpecOrder == InitOrder /\ [][SendNext \/ ControlNext]_vars

\* The playback direction on a network that delivers the peer's datagrams
\* in order, swapped, or twice.
InitArrive ==
    /\ InitOn({"duplex", "wifi", "comm"}, {MaxBuf}, {InOrder, Swapped, Duplicated})
    /\ LinkIdle
    /\ PcmIdle
    /\ launch.load_ok

SpecArrive == InitArrive /\ [][RecvNext \/ ControlNext]_vars

\* Two FullDuplexComm endpoints, roles A and B, each constructed with the
\* port settings it was started with, sending datagrams to each other.
InitPorts ==
    /\ InitOn({"comm"}, {MaxBuf}, {InOrder})
    /\ port_args \in [Roles -> PortSettings]
    /\ endpoints = [r \in Roles |-> NotConstructed]
    /\ dgrams_sent = [r \in Roles |-> 0]
    /\ heard = [r \in Roles |-> 0]
    /\ PcmIdle

SpecPorts == InitPorts /\ [][LinkNext]_vars

\* One frame through encode and decode: by OpusCodec alone, fed with float
\* frames in [-1, 1] (AudioComm) or with int16 frames (the codec tests), and
\* by FullDuplexComm, fed with the denoiser's float output.  The Opus
\* library is taken as lossless between the two PCM frames.
InitCodec ==
    /\ InitOn({"comm"}, {MaxBuf}, {InOrder})
    /\ LinkIdle
    /\ \/ /\ cx_path = "codec"
          /\ cx_in \in Frames("float32", 1, FloatSamples) \cup Frames("int16", 0, Int16Samples)
       \/ /\ cx_path = "comm"
          /\ cx_in \in Frames("float32", 1, LoudFloatSamples)
    /\ cx_val = cx_in
    /\ cx_pc = "start"
    /\ cx_muls = 0
    /\ cx_divs = 0
    /\ cx_wrapped = FALSE

SpecCodec == InitCodec /\ [][PcmNext]_vars

\* Startup and shutdown: the main thread, the control thread and both
\* workers, with a silent microphone and speaker (no audio callback fires).
InitLife == InitWith({"duplex", "wifi", "comm"}, {MaxBuf})

LifeNext ==
    \/ Start
    \/ SendOpenStream
    \/ RecvOpenStream
    \/ SendTop
    \/ SendGetTimeout
    \/ RecvTop
    \/ RecvDuplexPoll
    \/ RecvDuplexProcess
    \/ RecvWifi
    \/ RecvComm
    \/ ToggleProcessor
    \/ Quit
    \/ MainNext

SpecLife == InitLife /\ [][LifeNext]_vars

\* The direction that applies the selected processor (receive in demo/duplex,
\* send in demo/duplex_public_wifi) with the control thread, started with the
\* default initial_processor 0.
InitToggle ==
    /\ InitWith({"duplex", "wifi"}, {MaxBuf})
    /\ launch.load_ok
    /\ current_idx = 0

DuplexRecvNext ==
    \/ RecvOpenStream
    \/ SpeakerCallback
    \/ RecvTop
    \/ RecvDuplexPoll
    \/ RecvDuplexProcess

WifiSendNext ==
    \/ SendOpenStream
    \/ MicCallback
    \/ SendTop
    \/ SendGetTimeout
    \/ SendWifiGet
    \/ SendWifiProcess

ToggleNext ==
    \/ Start
    \/ ToggleProcessor
    \/ Quit
    \/ (variant = "duplex" /\ DuplexRecvNext)
    \/ (variant = "wifi" /\ WifiSendNext)

SpecToggle == InitToggle /\ [][ToggleNext]_vars

\* The duplex program started with any initial_processor of the config
\* file, which main passes on unchecked: control thread and receive thread.
InitIndex ==
    /\ InitBase({"duplex"}, {MaxBuf}, {InOrder})
    /\ LinkIdle
    /\ PcmIdle
    /\ current_idx \in 0..MaxInitial

IndexNext ==
    \/ Start
    \/ ToggleProcessor
    \/ Quit
    \/ DuplexRecvNext
    \/ RecvDuplexIndexError

SpecIndex == InitIndex /\ [][IndexNext]_vars


\* =================================================================
\* Properties
\* =================================================================

\* The receive thread has finished the iteration last_recv describes.
RecvComplete == last_recv.poll > 0 /\ recv_pc # "proc"

\* Every sample passed on by the wifi receive thread so far that is still
\* visible: the chunks of the last iteration followed by audio_buffer.
RECURSIVE OfferedAudio(_)
OfferedAudio(offers) ==
    IF offers = <<>> THEN <<>> ELSE Head(offers).audio \o OfferedAudio(Tail(offers))

\* The last n samples of a sample array.
Tail48k(a, n) == Drop(a, SumLen(a) - n)

FailedCalls == {i \in DOMAIN last_send.calls : ~last_send.calls[i].ok}

\* C1: when mic_callback fires while send_queue is full, the callback
\* completes, the queue keeps the same frames in the same order, and the
\* frame just captured is the one discarded.
C1_MicDropsNewest ==
    [][(captured' = captured + 1 /\ Len(send_queue) >= buffer_size)
        => /\ send_queue' = send_queue
           /\ last_mic' = [id |-> captured + 1, dropped |-> TRUE]]_vars

C1_Witness == last_mic.dropped /\ Len(send_queue) = buffer_size

\* C2: neither queue ever holds more than buffer_size frames, and after more
\* than buffer_size enqueue attempts with no dequeue in between a queue holds
\* exactly buffer_size frames.
C2_QueuesBounded ==
    /\ Len(send_queue) <= buffer_size
    /\ Len(recv_queue) <= buffer_size
    /\ (send_puts > buffer_size => Len(send_queue) = buffer_size)
    /\ (recv_puts > buffer_size => Len(recv_queue) = buffer_size)

C2_Witness ==
    /\ send_puts > buffer_size /\ Len(send_queue) = buffer_size
    /\ recv_puts > buffer_size /\ Len(recv_queue) = buffer_size

\* C3: a speaker callback on an empty recv_queue writes an all-zero block and
\* leaves the queue empty; on a non-empty queue it plays the head frame and
\* removes exactly that frame.
C3_SpeakerPlaysHeadOrSilence ==
    [][played' = played + 1
        => IF recv_queue = <<>>
           THEN /\ outdata' = [data |-> Zeros(ChunkSize48k), from_queue |-> FALSE]
                /\ recv_queue' = <<>>
           ELSE /\ outdata' = [data |-> Head(recv_queue), from_queue |-> TRUE]
                /\ recv_queue' = Tail(recv_queue)]_vars

C3_Witness == played > 0 /\ outdata.from_queue /\ ~IsSilent(outdata.data)

\* C4 as claimed: every receive timeout offers exactly one silent frame to
\* the playback queue.
C4_TimeoutOffersSilentFrame ==
    (RecvComplete /\ last_recv.sock = "timeout")
        => /\ Len(last_recv.offers) = 1
           /\ IsSilent(last_recv.offers[1].audio)

\* What the receive thread passes on for the 16 kHz frame `frame_16k` of the
\* iteration last_recv describes.
PassedOn(frame_16k) ==
    CASE variant = "duplex" ->
           IF last_recv.fault THEN last_recv.offers = <<>>
           ELSE /\ Len(last_recv.offers) = 1
                /\ last_recv.offers[1].audio =
                     Upsample16kTo48k(
                        IF last_recv.kind = "ai"
                        THEN [i \in 1..Len(frame_16k) |-> [frame_16k[i] EXCEPT !.proc = "ai"]]
                        ELSE frame_16k)
      [] variant = "wifi" ->
           Tail48k(OfferedAudio(last_recv.offers) \o audio_buffer,
                   SumLen(Upsample16kTo48k(frame_16k)))
             = Upsample16kTo48k(frame_16k)
      [] OTHER -> /\ Len(last_recv.offers) = 1
                  /\ last_recv.offers[1].audio = Upsample16kTo48k(frame_16k)

\* C4 amended: a timeout gives a silent 320-sample frame that the modular
\* receive threads pass on like a received frame (duplex: one frame offered
\* per timeout, silent unless the AI denoiser is selected, none if process()
\* raises; wifi: appended to the accumulation buffer and offered in 2880-sample
\* blocks); FullDuplexComm offers nothing on a timeout.  The datagram that
\* follows is decoded and passed on the same way, and the thread stays in its
\* loop while running is set.
C4_TimeoutSilenceByVariant ==
    /\ (RecvComplete /\ last_recv.sock = "timeout")
         => IF variant = "comm" THEN last_recv.offers = <<>>
            ELSE PassedOn(Zeros(FrameSize))
    /\ (RecvComplete /\ last_recv.sock = "data" /\ last_recv.dec = "ok")
         => PassedOn(<<Seg(last_recv.poll, "audio", FrameSize)>>)
    /\ (running => recv_pc # "stopped")

C4_Witness ==
    /\ variant = "duplex"
    /\ RecvComplete
    /\ last_recv.sock = "data"
    /\ timeout_count = last_recv.poll - 1
    /\ timeout_count > 0
    /\ last_recv.offers # <<>>

\* C5: when process() raises on a frame, the send thread still hands the
\* unprocessed frame to the transport in that iteration.
C5_FaultForwardsInput ==
    last_send.fault
        => /\ last_send.calls # <<>>
           /\ \A i \in DOMAIN last_send.calls :
                \A j \in DOMAIN last_send.calls[i].of :
                    /\ last_send.calls[i].of[j].id = last_send.got
                    /\ last_send.calls[i].of[j].proc = "none"

\* C6: a processor fault leaves no trace: the send thread stays in its loop
\* and every later iteration processes exactly the frame it dequeued.
C6_FaultLeavesNoTrace ==
    /\ (running => send_pc # "stopped")
    /\ (last_send.got # 0 /\ ~last_send.fault)
         => last_send.batch = <<last_send.got>>

\* C7: an empty packet (failed encode) is never handed to the socket and is
\* not counted in packets_sent.
C7_EmptyPacketNotSent ==
    /\ \A i \in DOMAIN last_send.calls : ~last_send.calls[i].pkt.empty
    /\ last_send.counted =
         Cardinality({i \in DOMAIN last_send.calls :
                        last_send.calls[i].ok /\ ~last_send.calls[i].pkt.empty})

\* C8: AudioComm.receive never raises; a timeout or any other socket error
\* gives an all-zero frame of the codec frame length, a decoded datagram
\* gives the decoded frame.
C8_ReceiveNeverRaises ==
    (variant \in {"duplex", "wifi"} /\ last_recv.poll > 0)
        => /\ ~last_recv.raised
           /\ (last_recv.sock \in {"timeout", "oserror"}
                 => last_recv.rx = Zeros(FrameSize))
           /\ (last_recv.sock = "data" /\ last_recv.dec = "ok"
                 => last_recv.rx = <<Seg(last_recv.poll, "audio", FrameSize)>>)

C8_Witness ==
    /\ variant = "wifi"
    /\ last_recv.sock = "oserror"
    /\ last_recv.poll > 1
    /\ recv_count > 0

\* C9: a datagram the decoder rejects gives an all-zero frame of frame_size
\* samples, nothing is raised, and the receive thread passes the frame on
\* like any other.
C9_DecodeFailureIsSilence ==
    (last_recv.sock = "data" /\ last_recv.dec = "error")
        => /\ ~last_recv.raised
           /\ (variant # "comm" => last_recv.rx = Zeros(FrameSize))
           /\ (RecvComplete /\ ~last_recv.fault => PassedOn(Zeros(FrameSize)))

C9_Witness ==
    /\ last_recv.sock = "data"
    /\ last_recv.dec = "error"
    /\ RecvComplete
    /\ last_recv.offers # <<>>
    /\ last_recv.offers[1].accepted

\* C10: a sendto that raises makes AudioComm.send return False: the frame is
\* not counted, not sent again, not kept for a later iteration, and the send
\* thread stays in its loop.
C10_SendFailureDropsFrame ==
    /\ last_send.counted = Cardinality(DOMAIN last_send.calls \ FailedCalls)
    /\ \A i \in FailedCalls : \A j \in DOMAIN last_send.calls :
            j # i => last_send.calls[j].of # last_send.calls[i].of
    /\ (FailedCalls # {} /\ send_pc \in {"top", "get"} => batch_buffer = <<>>)
    /\ (running => send_pc # "stopped")

C10_Witness == FailedCalls # {} /\ packets_sent > 0 /\ send_pc = "top"

\* A step the main thread takes by itself, without a signal from outside.
MainThreadStep == MainLoop \/ MainJoin \/ MainFinish

\* C11: once cancellation is requested the controller goes on to join the
\* workers and close the sockets: with the running flag cleared it is never
\* left waiting in its loop, and when it has finished the sockets are closed.
C11_CancelClosesSockets ==
    /\ (main_pc = "done" => ~sockets_open)
    /\ ((~running /\ main_pc = "running") => ENABLED MainThreadStep)

\* A step of the send thread / of the receive thread.
SendThreadStep == SendTop \/ SendGetTimeout \/ SendDuplex \/ SendWifiGet \/ SendWifiProcess

RecvThreadStep ==
    \/ RecvTop
    \/ RecvDuplexPoll
    \/ RecvDuplexProcess
    \/ RecvDuplexIndexError
    \/ RecvWifi
    \/ RecvComm

\* C12: with the running flag cleared, neither worker begins another loop
\* iteration (the one in progress is the last), and a worker that is still
\* in its loop can always take its next step: no wait in the loop blocks.
C12_WorkersLeaveLoop ==
    /\ [][~running
            => /\ (send_pc' = "get" => send_pc = "get")
               /\ (recv_pc' = "poll" => recv_pc = "poll")]_vars
    /\ [](~running
            => /\ (send_pc \in {"top", "get", "proc"} /\ variant # "comm"
                     => ENABLED SendThreadStep)
               /\ (recv_pc \in {"top", "poll", "proc"} => ENABLED RecvThreadStep))

C12_Witness ==
    /\ ~running
    /\ send_pc = "stopped"
    /\ recv_pc = "stopped"
    /\ polls > 0

\* C13: when the configured AI denoiser fails to load, no worker thread is
\* ever started.
C13_LoadFailureAbortsStartup ==
    (launch.enable_ai /\ ~launch.load_ok)
        => /\ send_pc = "idle"
           /\ recv_pc = "idle"
           /\ main_pc \in {"aborted", "constructed"}

\* C14: no worker is in its loop while the audio stream of the other
\* direction failed to open.
C14_StreamFailureStopsBoth ==
    /\ ~(send_pc = "failed" /\ recv_pc \in {"top", "poll", "proc"})
    /\ ~(recv_pc = "failed" /\ send_pc \in {"top", "get", "proc"})

\* The samples of `a` as they leave the processor of kind k: only the AI
\* denoiser changes them.
HandledBy(k, a) ==
    [i \in 1..Len(a) |-> [a[i] EXCEPT !.proc = IF k = "ai" THEN "ai" ELSE "none"]]

\* C15: a frame whose handling no toggle interleaves with is handled with the
\* processor selected at that time; so once a toggle is done and no other
\* follows, every frame taken up afterwards gets the newly selected processor.
C15_FrameUsesSelectedProcessor ==
    [][/\ (/\ variant = "duplex"
            /\ last_recv' # last_recv
            /\ recv_pc' = "top"
            /\ ~last_recv'.mixed)
           => /\ last_recv'.kind =
                   (IF current_idx = 0 THEN "none" ELSE processors[current_idx + 1])
              /\ (~last_recv'.fault
                    => /\ Len(last_recv'.offers) = 1
                       /\ last_recv'.offers[1].audio =
                            Upsample16kTo48k(HandledBy(last_recv'.kind, last_recv'.rx)))
       /\ (/\ variant = "wifi"
            /\ last_send' # last_send
            /\ ~last_send'.mixed)
           => /\ last_send'.kind = processors[current_idx + 1]
              /\ \A i \in DOMAIN last_send'.calls :
                    last_send'.calls[i].of = HandledBy(last_send'.kind, last_send'.calls[i].of)]_vars

C15_Witness ==
    /\ variant = "duplex"
    /\ RecvComplete
    /\ last_recv.poll >= 2
    /\ current_idx = 1
    /\ last_recv.kind = "ai"
    /\ ~last_recv.mixed
    /\ ~last_recv.fault
    /\ last_recv.offers # <<>>

\* C16: the handling of one frame sees one value of current_idx.
C16_OneIndexReadPerFrame ==
    /\ ~last_recv.mixed
    /\ ~last_send.mixed

\* idx after k toggles of a list of n processors.
RECURSIVE ToggleTimes(_, _, _)
ToggleTimes(idx, n, k) == IF k = 0 THEN idx ELSE ToggleTimes(NextIdx(idx, n), n, k - 1)

\* C17: current_idx changes only by a toggle of the control thread, which
\* sets it to (current_idx + 1) mod len(processors) and touches nothing of the
\* workers; len(processors) toggles lead back to the same processor.
C17_ToggleCyclesIndex ==
    [][/\ (current_idx' # current_idx
            => /\ current_idx' = (current_idx + 1) % Len(processors)
               /\ running
               /\ UNCHANGED <<cfgVars, linkVars, pcmVars, mainVars, running, sendVars, recvVars>>)
       /\ ToggleTimes(current_idx, Len(processors), Len(processors)) = current_idx]_vars

C17_Witness ==
    /\ variant = "duplex"
    /\ Len(processors) = 3
    /\ last_recv.kind = "classical"
    /\ current_idx = 0

\* The capture numbers of the frames still waiting in the send direction:
\* batch_buffer, then send_queue.
RECURSIVE FrameIds(_)
FrameIds(frames) ==
    IF frames = <<>> THEN <<>> ELSE <<Head(frames)[1].id>> \o FrameIds(Tail(frames))

WaitingIds == FrameIds(batch_buffer) \o FrameIds(send_queue)

\* Position of the samples of a sendto call in the captured stream.
Before(c1, c2) ==
    \/ c1.of[1].id < c2.of[1].id
    \/ (c1.of[1].id = c2.of[1].id /\ c1.of[1].off < c2.of[1].off)

\* C18: what the send thread hands to the transport follows the capture
\* order: the waiting frames are in capture order, the datagrams of an
\* iteration are in stream order without repetition, and everything still
\* waiting was captured after everything sent.
C18_SendKeepsCaptureOrder ==
    /\ \A i, j \in DOMAIN WaitingIds : i < j => WaitingIds[i] < WaitingIds[j]
    /\ \A i, j \in DOMAIN last_send.calls :
          i < j => Before(last_send.calls[i], last_send.calls[j])
    /\ \A i \in DOMAIN last_send.calls, j \in DOMAIN WaitingIds :
          last_send.calls[i].of[1].id < WaitingIds[j]
    /\ \A i \in DOMAIN last_send.calls : last_send.calls[i].of[1].id <= captured

C18_Witness ==
    /\ variant = "wifi"
    /\ buffer_size > MaxQueueSize
    /\ last_send.got = MaxQueueSize + 1 - FlushKeep + 1
    /\ packets_sent = 3
    /\ Len(last_send.calls) = 3
    /\ send_queue # <<>>

\* The chunks of an iteration that the speaker queue took.
RECURSIVE AcceptedAudio(_)
AcceptedAudio(offers) ==
    IF offers = <<>> THEN <<>>
    ELSE (IF Head(offers).accepted THEN <<Head(offers).audio>> ELSE <<>>)
            \o AcceptedAudio(Tail(offers))

\* The decoded samples waiting for playback, oldest first, silence left out.
RECURSIVE Flatten(_)
Flatten(q) == IF q = <<>> THEN <<>> ELSE Head(q) \o Flatten(Tail(q))

WaitingAudio == SelectSeq(Flatten(recv_queue) \o audio_buffer, LAMBDA g : g.kind = "audio")

\* C19: received frames are queued in arrival order, whatever frame numbers
\* the peer gave them: the receive thread only appends at the tail of
\* recv_queue, only the speaker callback removes (at the head), and every
\* datagram the socket returned and the decoder accepted is passed on in
\* the iteration of its own poll, a swapped or repeated one included.
C19_QueuedInArrivalOrder ==
    [][/\ (last_recv' # last_recv
            => recv_queue' = recv_queue \o AcceptedAudio(last_recv'.offers))
       /\ (recv_queue' # recv_queue => (last_recv' # last_recv \/ played' = played + 1))
       /\ (played' = played + 1 /\ recv_queue' # recv_queue => recv_queue' = Tail(recv_queue))
       /\ ( /\ last_recv' # last_recv
            /\ recv_pc' = "top"
            /\ last_recv'.sock = "data" /\ last_recv'.dec = "ok"
            /\ ~last_recv'.fault /\ ~last_recv'.raised
            => LET frame == Upsample16kTo48k(
                               HandledBy(last_recv'.kind,
                                         <<Seg(last_recv'.poll, "audio", FrameSize)>>))
               IN  IF variant = "wifi"
                   THEN Tail48k(OfferedAudio(last_recv'.offers) \o audio_buffer',
                                SumLen(frame)) = frame
                   ELSE /\ Len(last_recv'.offers) = 1
                        /\ last_recv'.offers[1].audio = frame )
       /\ \A i, j \in DOMAIN WaitingAudio :
             i < j => \/ WaitingAudio[i].id < WaitingAudio[j].id
                      \/ /\ WaitingAudio[i].id = WaitingAudio[j].id
                         /\ WaitingAudio[i].off < WaitingAudio[j].off
      ]_vars

C19_Witness ==
    /\ variant = "duplex"
    /\ wire[1] = wire[2]
    /\ polls = 2 /\ recv_pc = "top"
    /\ Len(recv_queue) = 2
    /\ recv_queue[1][1].id = 1 /\ recv_queue[1][1].kind = "audio"
    /\ recv_queue[2][1].id = 2 /\ recv_queue[2][1].kind = "audio"

\* C20: every sendto call of the send thread carries the packet of one
\* encode call on one codec frame: frame_size samples that are one
\* frame-aligned piece of one captured frame, nothing else in the packet,
\* and no piece of the stream in two datagrams.
C20_OneFramePerDatagram ==
    /\ \A i \in DOMAIN last_send.calls :
          LET c == last_send.calls[i]
          IN  /\ SumLen(c.of) = FrameSize
              /\ Len(c.of) = 1
              /\ c.of[1].off % FrameSize = 0
              /\ (c.pkt.empty \/ c.pkt.audio = c.of)
    /\ \A i, j \in DOMAIN last_send.calls :
          i # j => <<last_send.calls[i].of[1].id, last_send.calls[i].of[1].off>>
                     # <<last_send.calls[j].of[1].id, last_send.calls[j].of[1].off>>

C20_Witness ==
    /\ variant = "wifi"
    /\ send_pc = "top"
    /\ Len(last_send.calls) = ChunkWifi \div (3 * OpusChunk)
    /\ \A i \in DOMAIN last_send.calls :
          /\ ~last_send.calls[i].pkt.empty
          /\ last_send.calls[i].of[1].off = (i - 1) * FrameSize

\* C21: two endpoints started with the launcher's per-role port settings
\* use paired ports: each sends to the port the other listens on.
C21_LauncherPortsPaired ==
    (/\ port_args = LauncherConfig
     /\ \A r \in Roles : endpoints[r] # NotConstructed)
        => \A r \in Roles : endpoints[r].send_port = endpoints[Peer(r)].recv_port

\* The threads that have called into a codec object so far: the send
\* thread through comm.send, the receive thread through comm.receive on a
\* datagram.
CodecUsers(c) ==
    (IF last_send.calls # <<>> /\ EncodeCodec = c THEN {"send_thread"} ELSE {})
        \cup (IF last_recv.sock = "data" /\ DecodeCodec = c THEN {"recv_thread"} ELSE {})

\* C22: no codec object is called by more than one thread.
C22_CodecPerDirection ==
    \A c \in CodecAttributes : Cardinality(CodecUsers(c)) <= 1

\* C23: BypassProcessor.process and ClassicalFiltersProcessor.process return
\* their argument and touch nothing else: what the worker passes on after the
\* call is exactly the frame it handed in, the call never fails, and the
\* processor list and the selection are as before.
C23_BypassReturnsInput ==
    [][/\ (/\ variant = "wifi"
            /\ send_pc = "proc" /\ send_pc' = "top"
            /\ processors[s_proc + 1] \in {"bypass", "classical"})
           => LET x == Concatenate(batch_buffer)
              IN  /\ ~last_send'.fault
                  /\ Len(last_send'.calls) = SumLen(x) \div OpusChunk
                  /\ \A i \in DOMAIN last_send'.calls :
                        last_send'.calls[i].of = Take(Drop(x, (i - 1) * OpusChunk), OpusChunk)
                  /\ UNCHANGED <<processors, current_idx>>
       /\ (/\ variant = "duplex"
            /\ recv_pc = "proc" /\ recv_pc' = "top"
            /\ processors[current_idx + 1] \in {"bypass", "classical"})
           => /\ ~last_recv'.fault
              /\ Len(last_recv'.offers) = 1
              /\ last_recv'.offers[1].audio = Upsample16kTo48k(r_frame)
              /\ UNCHANGED <<processors, current_idx>>]_vars

C23_Witness ==
    /\ variant = "wifi"
    /\ send_pc = "top"
    /\ last_send.kind = "classical"
    /\ Len(last_send.calls) = 3
    /\ last_send.calls[1].of[1].proc = "none"

\* |x - y| for sample i of two frames, in units of 1 / PcmScale.
SampleGap(x, y, i) ==
    LET u(v) == IF v.d = 0 THEN v.s[i] * PcmScale ELSE v.s[i]
        g == u(x) - u(y)
    IN  IF g < 0 THEN -g ELSE g

\* The level difference the loud-signal test accepts, in int16 steps.
LoudTolerance == 3000

\* C24: decode(encode(x)) through one OpusCodec has the length of x and every
\* sample within the accepted level difference of the sample of x.
C24_RoundTripApproximates ==
    (cx_path = "codec" /\ cx_pc = "decoded")
        => /\ Len(cx_val.s) = Len(cx_in.s)
           /\ \A i \in DOMAIN cx_in.s :
                 SampleGap(cx_in, cx_val, i)
                    <= (IF cx_in.d = 0 THEN LoudTolerance * PcmScale ELSE LoudTolerance)

\* C30: on the FullDuplexComm path a frame is multiplied by 32767 once before
\* the encoder and divided by 32767 once after the decoder, and no product
\* wraps around the int16 range.
C30_OneConversionEachWay ==
    (cx_path = "comm" /\ cx_pc \in {"packet", "decoded"})
        => /\ cx_muls = 1
           /\ ~cx_wrapped
           /\ (cx_pc = "decoded" => cx_divs = 1)

\* C25: current_idx is always a valid index into the processors list.
C25_IndexInRange ==
    0 <= current_idx /\ current_idx < Len(processors)

\* The capture numbers of the samples handed to sendto in an iteration.
SentIds(calls) == {calls[i].of[k].id : i \in DOMAIN calls, k \in {1}}

\* C26: a wifi send iteration that finds more than max_queue_size frames
\* queued discards from the head until 3 remain and goes on with exactly
\* those 3, in their order; a discarded frame is never sent, since datagrams
\* are cut only from waiting frames and only freshly captured frames join
\* the waiting ones.
C26_FlushKeepsNewestThree ==
    [][/\ (variant = "wifi" /\ send_pc = "get" /\ send_pc' = "proc"
              /\ Len(send_queue) > MaxQueueSize)
            => LET n == Len(send_queue)
                   kept == SubSeq(send_queue, n - FlushKeep + 1, n)
               IN  /\ Len(send_queue') = FlushKeep - 1
                   /\ send_queue' = Tail(kept)
                   /\ batch_buffer' =
                         Append(batch_buffer, Downsample48kTo16k(Head(kept)))
                   /\ s_proc' = current_idx
                   /\ UNCHANGED <<packets_sent, last_send>>
                   /\ \A after \in {WaitingIds'} :
                         \A i \in 1..(n - FlushKeep), j \in DOMAIN after :
                            send_queue[i][1].id # after[j]
       /\ (variant = "wifi" /\ send_pc = "proc" /\ send_pc' = "top")
            => SentIds(last_send'.calls)
                  \subseteq {WaitingIds[j] : j \in DOMAIN FrameIds(batch_buffer)}
       /\ (variant = "wifi"
              /\ <<batch_buffer, send_queue>>' # <<batch_buffer, send_queue>>)
            => \A before \in {WaitingIds}, after \in {WaitingIds'} :
                  \A j \in DOMAIN after :
                     \/ \E k \in DOMAIN before : before[k] = after[j]
                     \/ after[j] > captured]_vars

C26_Witness ==
    /\ variant = "wifi"
    /\ send_pc = "proc"
    /\ captured = MaxQueueSize + 1
    /\ packets_sent = 0
    /\ FrameIds(batch_buffer) = <<MaxQueueSize + 1 - FlushKeep + 1>>
    /\ FrameIds(send_queue) = <<MaxQueueSize + 1 - 1, MaxQueueSize + 1>>

\* C27: in the wifi send thread batch_buffer is empty at the start of every
\* iteration, also after an iteration whose processing or sending raised,
\* and the batch handed to the processor is exactly the one chunk dequeued
\* in that iteration.
C27_BatchEmptyAtIterationStart ==
    variant = "wifi" =>
       /\ (send_pc \in {"top", "get"} => batch_buffer = <<>>)
       /\ (send_pc = "proc" => Len(batch_buffer) = 1)
       /\ (last_send.kind \notin {"none", "skip"}
              => last_send.batch = <<last_send.got>>)

\* A sample array with neighbouring pieces of one source frame joined, so
\* that arrays cut at different places compare equal sample by sample.
RECURSIVE Joined(_)
Joined(a) ==
    IF Len(a) < 2 THEN a
    ELSE LET g == a[1]
             h == a[2]
         IN  IF g.id = h.id /\ g.kind = h.kind /\ g.proc = h.proc
                   /\ g.off + g.len = h.off
             THEN Joined(<<[g EXCEPT !.len = g.len + h.len]>> \o Tail(Tail(a)))
             ELSE <<g>> \o Joined(Tail(a))

\* C28: in the wifi receive thread every block offered to recv_queue has
\* exactly chunk_size_48k (2880) samples, fewer than that remain in
\* audio_buffer after each iteration, and the blocks offered in an iteration
\* followed by the remainder are the previous remainder followed by the
\* upsampled frame just received: nothing lost, repeated or reordered.
C28_WifiBlocksAreWholeChunks ==
    /\ [][(variant = "wifi" /\ recv_pc = "poll" /\ recv_pc' = "top")
            => /\ \A i \in DOMAIN last_recv'.offers :
                     SumLen(last_recv'.offers[i].audio) = ChunkWifi
               /\ SumLen(audio_buffer') < ChunkWifi
               /\ ~last_recv'.raised
               /\ SumLen(Upsample16kTo48k(last_recv'.rx)) = 3 * FrameSize
               /\ Joined(OfferedAudio(last_recv'.offers) \o audio_buffer')
                     = Joined(audio_buffer \o Upsample16kTo48k(last_recv'.rx))]_vars
    /\ [](variant = "wifi" => SumLen(audio_buffer) < ChunkWifi)

C28_Witness ==
    /\ variant = "wifi"
    /\ recv_pc = "top"
    /\ Len(last_recv.offers) = 1
    /\ last_recv.offers[1].accepted
    /\ Len(last_recv.offers[1].audio) = 3
    /\ last_recv.offers[1].audio[2].kind = "audio"
    /\ SumLen(audio_buffer) = 0

\* C29: packets_received counts only frames decoded from datagrams that
\* were actually received: it never exceeds the number of datagrams the
\* socket returned, and an iteration whose receive timed out or met a socket
\* error (a silent frame) counts nothing.
C29_CountsOnlyDatagrams ==
    /\ (variant \in {"duplex", "wifi"} => packets_received <= recv_count)
    /\ (last_recv.sock \in {"timeout", "oserror"} => last_recv.counted = 0)

====
